---------------------------- MODULE Spec2Model ----------------------------
(***************************************************************************)
(* A model of the chart-repository index (pkg/repo/index.go) and of the    *)
(* repository provider (repoProvider, gcsRepoProvider).                    *)
(*                                                                         *)
(* The specifications of the module:                                       *)
(*   Spec          the catalog: Add, Merge, SortEntries, Get, LoadIndex    *)
(*   SpecSort      SortEntries applied to every short version list         *)
(*   SpecRegistry  threads calling GetRepoByName / GetRepoByURL            *)
(*   SpecLoad      LoadIndex applied to every small document               *)
(*   SpecDir       IndexDirectory on every small directory                 *)
(*   SpecFile      Add, WriteFile and LoadIndexFile around one index file  *)
(*   SpecFetch     DownloadIndexFile into one index file                   *)
(*   SpecChart     threads calling GetChartByReference                     *)
(*   SpecRegistryFair  SpecRegistry, with scheduler and mutex fairness     *)
(*                                                                         *)
(* Abstractions.  Strings the code only compares are TLA+ strings.  URLs   *)
(* and file paths are sequences (of path segments in the catalog, of       *)
(* characters in the registry, where the code takes string prefixes).  The *)
(* time stamps (Generated, Created), the Removed flag and PublicKeys are   *)
(* never read by the modelled code and are left out.                       *)
(***************************************************************************)
EXTENDS Integers, Sequences, FiniteSets, TLC

VARIABLES
  idx,      \* catalog id -> IndexFile
  last,     \* the last catalog operation: its arguments, pre-state and result
  disk,     \* the file at indexFilePath: <<>> when there is none, else <<bytes>>
  repos,    \* repoProvider.repos: name -> handle
  lock,     \* repoProvider's mutex: 0 when free, else the thread holding it
  pc,       \* thread -> position in its call
  call,     \* thread -> the call it is making
  cr,       \* thread -> local descriptor / handle (cr in the code)
  ret,      \* thread -> what its last call returned
  built,    \* name -> backing stores constructed for it (counted up to MaxBuilt)
  svc,      \* the descriptor service: name -> descriptor
  alive     \* FALSE once log.Fatalf has ended the process

catVars == <<idx, last, disk>>
regVars == <<repos, lock, pc, call, cr, ret, built, svc, alive>>
vars == <<idx, last, disk, repos, lock, pc, call, cr, ret, built, svc, alive>>

(***************************************************************************)
(* Bounds                                                                  *)
(***************************************************************************)
MaxRecords == 3   \* records Add and LoadIndex put into the catalogs together, and
                  \* records Merge lets one catalog grow to
MaxSortLen == 4   \* length of the lists SpecSort starts from
NThreads == 2     \* threads calling the repository provider
MaxBuilt == 2     \* the count of constructions per name stops here

Cats == {1, 2}

(***************************************************************************)
(* Semantic versions (github.com/Masterminds/semver), on the version       *)
(* strings the model uses.  NewVersion accepts a leading "v"; the empty    *)
(* string and "bad" do not parse.                                          *)
(***************************************************************************)
NewVersion(v) ==
  CASE v = "1.0.0"       -> [ok |-> TRUE, major |-> 1, minor |-> 0, patch |-> 0, pre |-> ""]
    [] v = "1.2.0"       -> [ok |-> TRUE, major |-> 1, minor |-> 2, patch |-> 0, pre |-> ""]
    [] v = "2.0.0-alpha" -> [ok |-> TRUE, major |-> 2, minor |-> 0, patch |-> 0, pre |-> "alpha"]
    [] v = "2.0.0"       -> [ok |-> TRUE, major |-> 2, minor |-> 0, patch |-> 0, pre |-> ""]
    [] v = "v2.0.0"      -> [ok |-> TRUE, major |-> 2, minor |-> 0, patch |-> 0, pre |-> ""]
    [] OTHER             -> [ok |-> FALSE, major |-> 0, minor |-> 0, patch |-> 0, pre |-> ""]

\* Version.Compare: major, minor, patch, then a pre-release is lower than none.
Compare(i, j) ==
  IF i.major # j.major THEN (IF i.major < j.major THEN -1 ELSE 1)
  ELSE IF i.minor # j.minor THEN (IF i.minor < j.minor THEN -1 ELSE 1)
  ELSE IF i.patch # j.patch THEN (IF i.patch < j.patch THEN -1 ELSE 1)
  ELSE IF i.pre = j.pre THEN 0
  ELSE IF i.pre = "" THEN 1
  ELSE -1

LessThan(i, j) == Compare(i, j) < 0

(***************************************************************************)
(* ChartVersions: Len, Swap, Less                                          *)
(***************************************************************************)
Swap(c, i, j) == [c EXCEPT ![i] = c[j], ![j] = c[i]]

\* A mutant of Less: a failed parse of the left version reports "not less".
LessParseFailFalse(c, a, b) ==
  LET i == NewVersion(c[a].version)
      j == NewVersion(c[b].version)
  IN  IF ~i.ok THEN FALSE
      ELSE IF ~j.ok THEN FALSE
      ELSE LessThan(i, j)

\* A mutant of Less: the comparison of two parsed versions is inverted.
LessInverted(c, a, b) ==
  LET i == NewVersion(c[a].version)
      j == NewVersion(c[b].version)
  IN  IF ~i.ok THEN TRUE
      ELSE IF ~j.ok THEN FALSE
      ELSE LessThan(j, i)

Less(c, a, b) ==
  LET i == NewVersion(c[a].version)
      j == NewVersion(c[b].version)
  IN  IF ~i.ok THEN TRUE
      ELSE IF ~j.ok THEN FALSE
      ELSE LessThan(i, j)

\* sort.Reverse: Less(i, j) of the reversed list is Less(j, i) of the list.
ReverseLess(c, i, j) == Less(c, j, i)

(***************************************************************************)
(* sort.Sort on a list of at most 6 elements is an insertion sort in every *)
(* Go release (longer lists go through quicksort / pdqsort first):         *)
(*   for i := a+1; i < b; i++ {                                            *)
(*     for j := i; j > a && data.Less(j, j-1); j-- { data.Swap(j, j-1) } } *)
(* Indices are 1-based here.                                               *)
(***************************************************************************)
RECURSIVE insertionInner(_, _)
insertionInner(data, j) ==
  IF j > 1 /\ ReverseLess(data, j, j - 1)
    THEN insertionInner(Swap(data, j, j - 1), j - 1)
    ELSE data

RECURSIVE insertionOuter(_, _)
insertionOuter(data, i) ==
  IF i <= Len(data) THEN insertionOuter(insertionInner(data, i), i + 1) ELSE data

SortReverse(versions) == insertionOuter(versions, 2)

(***************************************************************************)
(* IndexFile                                                               *)
(***************************************************************************)
APIVersionV1 == "v1"

\* An IndexFile: nilEntries says that the Entries map is nil, which is what
\* a decoder leaves when the document has no entries; a nil map reads like
\* an empty one and a write to it panics.
NewIndexFile == [apiVersion |-> APIVersionV1, entries |-> <<>>, nilEntries |-> FALSE]

NoChartVersion == [name |-> "", version |-> "", urls |-> <<>>, digest |-> ""]

\* filepath.Split(filename): the last path element.
FileOf(filename) == IF filename = <<>> THEN "" ELSE filename[Len(filename)]

\* urlJoin: url.Parse the base, path.Join its path with the file.
urlJoin(baseURL, file) ==
  IF baseURL.parses
    THEN [u |-> [segs |-> baseURL.segs \o <<file>>], err |-> FALSE]
    ELSE [u |-> [segs |-> <<>>], err |-> TRUE]

\* filepath.Join(baseURL, file), the fallback for an unparsable base.
filepathJoin(baseURL, file) == [segs |-> baseURL.segs \o <<file>>]

NoBaseURL == [segs |-> <<>>, parses |-> TRUE]

SetEntry(entries, name, vs) ==
  [n \in DOMAIN entries \cup {name} |-> IF n = name THEN vs ELSE entries[n]]

\* Add assigns to i.Entries[md.Name] on either branch: it panics when the
\* map is nil.
AddPanics(i) == i.nilEntries

Add(i, md, filename, baseURL, digest) ==
  LET u == IF baseURL.segs # <<>>
             THEN LET j == urlJoin(baseURL, FileOf(filename))
                  IN  IF j.err THEN filepathJoin(baseURL, FileOf(filename)) ELSE j.u
             ELSE [segs |-> filename]
      crv == [name |-> md.name, version |-> md.version, urls |-> <<u.segs>>, digest |-> digest]
  IN  IF md.name \notin DOMAIN i.entries
        THEN [i EXCEPT !.entries = SetEntry(i.entries, md.name, <<crv>>)]
        ELSE [i EXCEPT !.entries = SetEntry(i.entries, md.name, Append(i.entries[md.name], crv))]

\* The loop of Get over the versions of one name, from position k.
RECURSIVE GetLoop(_, _, _)
GetLoop(vs, version, k) ==
  IF k > Len(vs) THEN [cv |-> NoChartVersion, err |-> "NoChartVersionFound"]
  ELSE IF vs[k].version = version THEN [cv |-> vs[k], err |-> ""]
  ELSE GetLoop(vs, version, k + 1)

\* A mutant of Get: the scan keeps the last match instead of the first, and an
\* empty version is looked up like any other.
RECURSIVE GetLoopLast(_, _, _)
GetLoopLast(vs, version, k) ==
  IF k < 1 THEN [cv |-> NoChartVersion, err |-> "NoChartVersionFound"]
  ELSE IF vs[k].version = version THEN [cv |-> vs[k], err |-> ""]
  ELSE GetLoopLast(vs, version, k - 1)

GetLastMatch(i, name, version) ==
  IF name \notin DOMAIN i.entries THEN [cv |-> NoChartVersion, err |-> "ErrNoChartName"]
  ELSE LET vs == i.entries[name]
       IN  IF Len(vs) = 0 THEN [cv |-> NoChartVersion, err |-> "ErrNoChartVersion"]
           ELSE GetLoopLast(vs, version, Len(vs))

Get(i, name, version) ==
  IF name \notin DOMAIN i.entries THEN [cv |-> NoChartVersion, err |-> "ErrNoChartName"]
  ELSE LET vs == i.entries[name]
       IN  IF Len(vs) = 0 THEN [cv |-> NoChartVersion, err |-> "ErrNoChartVersion"]
           ELSE IF version = "" THEN [cv |-> vs[1], err |-> ""]
           ELSE GetLoop(vs, version, 1)

Has(i, name, version) == Get(i, name, version).err = ""

SortEntries(i) ==
  [i EXCEPT !.entries = [n \in DOMAIN i.entries |-> SortReverse(i.entries[n])]]

\* A mutant of Merge's inner loop: the Has test is dropped.
RECURSIVE MergeVersionsNoHas(_, _)
MergeVersionsNoHas(i, cvs) ==
  IF cvs = <<>> THEN i
  ELSE LET cv == Head(cvs)
           e  == IF cv.name \in DOMAIN i.entries THEN i.entries[cv.name] ELSE <<>>
       IN  MergeVersionsNoHas(
             [i EXCEPT !.entries = SetEntry(i.entries, cv.name, Append(e, cv))], Tail(cvs))

\* A mutant of Merge's inner loop: a record already present is replaced.
RECURSIVE MergeVersionsOverwrite(_, _)
MergeVersionsOverwrite(i, cvs) ==
  IF cvs = <<>> THEN i
  ELSE LET cv == Head(cvs)
           e  == IF cv.name \in DOMAIN i.entries THEN i.entries[cv.name] ELSE <<>>
           i2 == IF ~Has(i, cv.name, cv.version)
                   THEN [i EXCEPT !.entries = SetEntry(i.entries, cv.name, Append(e, cv))]
                   ELSE [i EXCEPT !.entries = SetEntry(i.entries, cv.name,
                           [k \in 1..Len(e) |->
                              IF e[k].version = cv.version THEN cv ELSE e[k]])]
       IN  MergeVersionsOverwrite(i2, Tail(cvs))

\* A mutant of Merge's inner loop: every record is tested against the
\* receiver as it was when the loop began.
MergeVersionsStaleHas(i, cvs) ==
  MergeVersionsNoHas(i, SelectSeq(cvs, LAMBDA cv : ~Has(i, cv.name, cv.version)))

\* The inner loop of Merge: the records of one name of f, in list order.
RECURSIVE MergeVersions(_, _)
MergeVersions(i, cvs) ==
  IF cvs = <<>> THEN i
  ELSE LET cv == Head(cvs)
           e  == IF cv.name \in DOMAIN i.entries THEN i.entries[cv.name] ELSE <<>>
           i2 == IF ~Has(i, cv.name, cv.version)
                   THEN [i EXCEPT !.entries = SetEntry(i.entries, cv.name, Append(e, cv))]
                   ELSE i
       IN  MergeVersions(i2, Tail(cvs))

\* The outer loop of Merge: `range f.Entries` visits the names in an order the
\* Go runtime picks; order is that order.
RECURSIVE MergeNames(_, _, _)
MergeNames(i, f, order) ==
  IF order = <<>> THEN i
  ELSE MergeNames(MergeVersions(i, f.entries[Head(order)]), f, Tail(order))

Merge(i, f, order) == MergeNames(i, f, order)

\* Merge assigns to i.Entries[cv.Name] for every record it adds: it panics at
\* the first one when the map is nil.
MergePanics(i, f, order) == i.nilEntries /\ MergeNames(i, f, order) # i

\* The orders in which a map with the keys S can be ranged over.
Orders(S) ==
  {o \in [1..Cardinality(S) -> S] : \A a, b \in 1..Cardinality(S) : a # b => o[a] # o[b]}


(***************************************************************************)
(* LoadIndex.  A document is the parsed form of the bytes: whether they    *)
(* are well-formed YAML, the apiVersion field ("" when absent), the        *)
(* entries field, and the remaining top-level keys with their values,      *)
(* which is what the legacy format consists of.  A legacy key is a         *)
(* sequence of tokens, "-" being a token of its own, so that splitting     *)
(* and suffix-trimming are computed.                                       *)
(***************************************************************************)
\* strings.Split(n, "-"): the parts between the "-" tokens.
RECURSIVE SplitDash(_, _, _)
SplitDash(toks, cur, acc) ==
  IF toks = <<>> THEN Append(acc, cur)
  ELSE IF Head(toks) = "-" THEN SplitDash(Tail(toks), <<>>, Append(acc, cur))
  ELSE SplitDash(Tail(toks), Append(cur, Head(toks)), acc)

Split(n) == SplitDash(n, <<>>, <<>>)

\* strings.TrimSuffix(part, ".tgz")
TrimSuffixTgz(part) ==
  IF part # <<>> /\ part[Len(part)] = ".tgz" THEN SubSeq(part, 1, Len(part) - 1) ELSE part

\* The string a token sequence spells.
RECURSIVE Spell(_)
Spell(toks) == IF toks = <<>> THEN "" ELSE Head(toks) \o Spell(Tail(toks))

\* The body of the loop of loadUnversionedIndex for one key n.
LegacyItem(ni, n, item) ==
  LET parts == Split(n)
      ver   == IF Len(parts) > 1 THEN Spell(TrimSuffixTgz(parts[2])) ELSE ""
      chartfile == IF ~item.chartfile.present \/ item.chartfile.name = ""
                     THEN [name |-> Spell(parts[1]), version |-> ver]
                     ELSE [name |-> item.chartfile.name, version |-> item.chartfile.version]
  IN  Add(ni, chartfile, item.url, NoBaseURL, item.checksum)

RECURSIVE LegacyLoop(_, _, _)
LegacyLoop(ni, legacy, order) ==
  IF order = <<>> THEN ni
  ELSE LegacyLoop(LegacyItem(ni, Head(order), legacy[Head(order)]), legacy, Tail(order))

\* order: the order in which `range i` visits the legacy map.  json.Unmarshal
\* into map[string]unversionedEntry fails on a top-level value that is not an
\* object.
loadUnversionedIndex(doc, order) ==
  IF \E n \in DOMAIN doc.legacy : ~doc.legacy[n].object
    THEN [idx |-> NewIndexFile, err |-> "ParseFailure"]
  ELSE IF DOMAIN doc.legacy = {} THEN [idx |-> NewIndexFile, err |-> "ErrNoAPIVersion"]
  ELSE [idx |-> LegacyLoop(NewIndexFile, doc.legacy, order), err |-> ""]

\* A mutant of LoadIndex: a document without apiVersion is refused, as the
\* comment in LoadIndex says it will be once legacy support is removed.
LoadIndexNoLegacy(doc, order) ==
  IF ~doc.valid THEN [idx |-> NewIndexFile, err |-> "ParseFailure"]
  ELSE IF doc.apiVersion = "" THEN [idx |-> NewIndexFile, err |-> "ErrNoAPIVersion"]
  ELSE [idx |-> [apiVersion |-> doc.apiVersion, entries |-> doc.entries,
                 nilEntries |-> ~doc.hasEntries], err |-> ""]

LoadIndex(doc, order) ==
  IF ~doc.valid THEN [idx |-> NewIndexFile, err |-> "ParseFailure"]
  ELSE IF doc.apiVersion = "" THEN loadUnversionedIndex(doc, order)
  ELSE [idx |-> [apiVersion |-> doc.apiVersion, entries |-> doc.entries,
                 nilEntries |-> ~doc.hasEntries], err |-> ""]

(***************************************************************************)
(* The inputs of the catalog operations                                    *)
(***************************************************************************)
\* Catalog 1 indexes a directory served under a base URL, catalog 2 one that
\* is not.
BaseURLOf(c) ==
  IF c = 1 THEN [segs |-> <<"http://h", "charts">>, parses |-> TRUE] ELSE NoBaseURL

\* Packaged charts as chartutil.Load and provenance.DigestFile report them.
Archives ==
  { [md |-> [name |-> "x", version |-> "1.0.0"], fname |-> <<"d", "x-1.0.0.tgz">>, digest |-> "AAA"],
    [md |-> [name |-> "x", version |-> "2.0.0"], fname |-> <<"d", "x-2.0.0.tgz">>, digest |-> "AAA"],
    [md |-> [name |-> "x", version |-> ""],      fname |-> <<"d", "x.tgz">>,       digest |-> "AAA"],
    [md |-> [name |-> "y", version |-> "1.0.0"], fname |-> <<"d", "y-1.0.0.tgz">>, digest |-> "AAA"] }

\* The arguments Get is called with: a name the archives have and one they do
\* not, the empty version, a version the archives have and one they do not.
Names == {"x", "z"}
Versions == {"", "1.0.0", "3.0.0"}

NoLegacy == [k \in {} |-> 0]
NoChartfile == [present |-> FALSE, name |-> "", version |-> ""]

Docs ==
  { \* a current-format document whose only name has no records
    [valid |-> TRUE, apiVersion |-> "v1", entries |-> SetEntry(<<>>, "x", <<>>),
     hasEntries |-> TRUE, legacy |-> NoLegacy],
    \* a current-format document without entries
    [valid |-> TRUE, apiVersion |-> "v1", entries |-> <<>>, hasEntries |-> FALSE,
     legacy |-> NoLegacy],
    \* a legacy document: key "x-1.0.0.tgz", no embedded descriptor
    [valid |-> TRUE, apiVersion |-> "", entries |-> <<>>, hasEntries |-> FALSE,
     legacy |-> [k \in {<<"x", "-", "1.0.0", ".tgz">>} |->
                   [object |-> TRUE, checksum |-> "BBB", url |-> <<"http://h", "x-1.0.0.tgz">>,
                    chartfile |-> NoChartfile]]],
    \* an empty document
    [valid |-> TRUE, apiVersion |-> "", entries |-> <<>>, hasEntries |-> FALSE,
     legacy |-> NoLegacy],
    \* bytes that are not YAML
    [valid |-> FALSE, apiVersion |-> "", entries |-> <<>>, hasEntries |-> FALSE,
     legacy |-> NoLegacy] }

(***************************************************************************)
(* The catalog as a state machine                                          *)
(***************************************************************************)
RECURSIVE SumLen(_, _)
SumLen(entries, S) ==
  IF S = {} THEN 0
  ELSE LET n == CHOOSE m \in S : TRUE IN Len(entries[n]) + SumLen(entries, S \ {n})

Size(i) == SumLen(i.entries, DOMAIN i.entries)

TotalRecords(ix) == Size(ix[1]) + Size(ix[2])

Last(op, recv, other, pre, arg, name, version, res) ==
  [op |-> op, recv |-> recv, other |-> other, pre |-> pre, arg |-> arg,
   name |-> name, version |-> version, cv |-> res.cv, err |-> res.err]

NoResult == [cv |-> NoChartVersion, err |-> ""]

\* No index file has been written yet.
DiskInit == disk = <<>>

CatInit ==
  /\ idx = [c \in Cats |-> NewIndexFile]
  /\ last = Last("New", 0, 0, NewIndexFile, NewIndexFile, "", "", NoResult)

\* A panic ends the program: no operation follows it.
Running == last.err # "panic"

Panic == [cv |-> NoChartVersion, err |-> "panic"]

AddAct(c, a) ==
  /\ UNCHANGED <<regVars, disk>>
  /\ Running
  /\ TotalRecords(idx) < MaxRecords
  /\ idx' = IF AddPanics(idx[c]) THEN idx
            ELSE [idx EXCEPT ![c] = Add(idx[c], a.md, a.fname, BaseURLOf(c), a.digest)]
  /\ last' = Last("Add", c, 0, idx[c], NewIndexFile, a.md.name, a.md.version,
                  IF AddPanics(idx[c]) THEN Panic ELSE NoResult)

\* Merge(f) on the receiver idx[c]; f is idx[o], and o = c merges a catalog
\* into itself.
MergeAct(c, o, order) ==
  LET m == Merge(idx[c], idx[o], order)
  IN  /\ UNCHANGED <<regVars, disk>>
      /\ Running
      /\ Size(m) <= MaxRecords
      /\ idx' = IF MergePanics(idx[c], idx[o], order) THEN idx ELSE [idx EXCEPT ![c] = m]
      /\ last' = Last("Merge", c, o, idx[c], idx[o], "", "",
                      IF MergePanics(idx[c], idx[o], order) THEN Panic ELSE NoResult)

SortAct(c) ==
  /\ UNCHANGED <<regVars, disk>>
  /\ Running
  /\ idx' = [idx EXCEPT ![c] = SortEntries(idx[c])]
  /\ last' = Last("SortEntries", c, 0, idx[c], NewIndexFile, "", "", NoResult)

GetAct(c, name, version) ==
  /\ UNCHANGED <<regVars, disk>>
  /\ Running
  /\ idx' = idx
  /\ last' = Last("Get", c, 0, idx[c], NewIndexFile, name, version, Get(idx[c], name, version))

LoadAct(c, doc, order) ==
  LET r == LoadIndex(doc, order)
  IN  /\ UNCHANGED <<regVars, disk>>
      /\ Running
      /\ TotalRecords([idx EXCEPT ![c] = r.idx]) <= MaxRecords
      /\ idx' = IF r.err = "" THEN [idx EXCEPT ![c] = r.idx] ELSE idx
      /\ last' = Last("LoadIndex", c, 0, NewIndexFile, NewIndexFile, "", "",
                      [cv |-> NoChartVersion, err |-> r.err])

Next ==
  \/ \E c \in Cats, a \in Archives : AddAct(c, a)
  \/ \E c \in Cats, o \in Cats : \E order \in Orders(DOMAIN idx[o].entries) : MergeAct(c, o, order)
  \/ \E c \in Cats : SortAct(c)
  \/ \E name \in Names, version \in Versions : GetAct(1, name, version)
  \/ \E c \in Cats, doc \in Docs : \E order \in Orders(DOMAIN doc.legacy) : LoadAct(c, doc, order)

(***************************************************************************)
(* The repository provider: repoProvider and gcsRepoProvider.              *)
(*                                                                         *)
(* The descriptor service (IRepoService), the credential provider          *)
(* (ICredentialProvider) and NewGCSRepo are collaborators the provider     *)
(* calls.  The service is a mutable list of repositories: a repository can *)
(* be deleted and created again under its name with another URL while the  *)
(* provider still holds the handle it built from the old descriptor.       *)
(***************************************************************************)
Threads == 1..NThreads

GCSRepoType == "gcs"

\* strings.HasPrefix(s, prefix), on sequences of characters.
HasPrefix(s, prefix) ==
  /\ Len(prefix) <= Len(s)
  /\ \A k \in 1..Len(prefix) : s[k] = prefix[k]

NoDescriptor == [name |-> "", url |-> <<>>, type |-> "", cred |-> ""]
NoHandle == [name |-> "", url |-> <<>>, client |-> ""]

\* What the descriptor service holds at start.  r2 and r3 share a URL; r4 is
\* of a type the provider has no factory for; r5 names a credential whose
\* secret is not a service-account key; r6 has a URL NewGCSRepo rejects.
Descriptors ==
  { [name |-> "r1", url |-> <<"a">>,           type |-> GCSRepoType, cred |-> ""],
    [name |-> "r2", url |-> <<"a", "b">>,      type |-> GCSRepoType, cred |-> "k1"],
    [name |-> "r3", url |-> <<"a", "b">>,      type |-> GCSRepoType, cred |-> "k2"],
    [name |-> "r4", url |-> <<"b">>,           type |-> "other",     cred |-> ""],
    [name |-> "r5", url |-> <<"a", "b", "c">>, type |-> GCSRepoType, cred |-> "k3"],
    [name |-> "r6", url |-> <<"b", "a">>,      type |-> GCSRepoType, cred |-> ""] }

\* The URLs NewGCSRepo does not take for a bucket.
InvalidGCSURLs == {<<"b", "a">>}

\* The URL r1 is created again with.
MovedURL == <<"c">>

\* rs.Get(repoName): the descriptor of that name, or an error.
ServiceGet(s, repoName) ==
  IF repoName \in DOMAIN s THEN [r |-> s[repoName], err |-> ""]
  ELSE [r |-> NoDescriptor, err |-> "RepoNotFound"]

\* rs.GetByURL(URL): the descriptors the service may answer with, those
\* whose URL is a prefix of URL; an error when there is none.
ServiceGetByURL(s, URL) == {s[n] : n \in {m \in DOMAIN s : HasPrefix(URL, s[m].url)}}

\* cp.GetCredential(name): k1 is a service-account key, k3 a secret that is
\* not one, any other name is not found.
GetCredential(credentialName) ==
  CASE credentialName = "k1" -> [serviceAccount |-> "json-key", err |-> ""]
    [] credentialName = "k3" -> [serviceAccount |-> "not-json", err |-> ""]
    [] OTHER                 -> [serviceAccount |-> "", err |-> "CredentialNotFound"]

\* google.JWTConfigFromJSON(secret, read-only scope)
JWTConfigFromJSON(serviceAccount) ==
  IF serviceAccount = "json-key" THEN [err |-> ""] ELSE [err |-> "BadKey"]

\* A mutant of createGCSClient: a credential that is not found ends the
\* process like a secret that does not parse.
createGCSClientStrict(credentialName) ==
  IF credentialName = "" THEN [client |-> "default", fatal |-> FALSE, asked |-> FALSE]
  ELSE LET c == GetCredential(credentialName)
       IN  IF c.err # "" THEN [client |-> "", fatal |-> TRUE, asked |-> TRUE]
           ELSE IF JWTConfigFromJSON(c.serviceAccount).err # ""
             THEN [client |-> "", fatal |-> TRUE, asked |-> TRUE]
           ELSE [client |-> "authorized", fatal |-> FALSE, asked |-> TRUE]

\* createGCSClient: the client, fatal when log.Fatalf ends the process, and
\* whether cp.GetCredential was called (asked).
createGCSClient(credentialName) ==
  IF credentialName = "" THEN [client |-> "default", fatal |-> FALSE, asked |-> FALSE]
  ELSE LET c == GetCredential(credentialName)
       IN  IF c.err # "" THEN [client |-> "default", fatal |-> FALSE, asked |-> TRUE]
           ELSE IF JWTConfigFromJSON(c.serviceAccount).err # ""
             THEN [client |-> "", fatal |-> TRUE, asked |-> TRUE]
           ELSE [client |-> "authorized", fatal |-> FALSE, asked |-> TRUE]

\* NewGCSRepo(name, URL, credentialName, client): rejects a URL that is not a
\* bucket URL.
NewGCSRepo(name, URL, client) ==
  IF URL \in InvalidGCSURLs THEN [h |-> NoHandle, err |-> "InvalidURL"]
  ELSE [h |-> [name |-> name, url |-> URL, client |-> client], err |-> ""]

\* GetGCSRepo(r)
GetGCSRepo(r) ==
  LET c == createGCSClient(r.cred)
  IN  IF c.fatal THEN [h |-> NoHandle, err |-> "", fatal |-> TRUE]
      ELSE LET n == NewGCSRepo(r.name, r.url, c.client)
           IN  [h |-> n.h, err |-> n.err, fatal |-> FALSE]

\* A mutant of findRepoByURL's loop: a shorter match replaces the one found.
RECURSIVE findLoopShortest(_, _, _, _)
findLoopShortest(rs, URL, order, found) ==
  IF order = <<>> THEN found
  ELSE LET r == rs[Head(order)]
           f == IF HasPrefix(URL, r.url) /\ (found = NoHandle \/ Len(found.url) > Len(r.url))
                  THEN r ELSE found
       IN  findLoopShortest(rs, URL, Tail(order), f)

\* The loop of findRepoByURL; order is the order `range rp.repos` visits the
\* map in, found the handle kept so far (NoHandle for nil).
RECURSIVE findLoop(_, _, _, _)
findLoop(rs, URL, order, found) ==
  IF order = <<>> THEN found
  ELSE LET r == rs[Head(order)]
           f == IF HasPrefix(URL, r.url) /\ (found = NoHandle \/ Len(found.url) < Len(r.url))
                  THEN r ELSE found
       IN  findLoop(rs, URL, Tail(order), f)

findRepoByURL(rs, URL, order) == findLoop(rs, URL, order, NoHandle)

\* A chart reference, by what chart.Parse and Locator.Long make of it:
\* whether it parses, whether the locator has a long form, the long form
\* (the URL of the chart), and the locator's name and version.
NoRef == [parses |-> FALSE, long |-> FALSE, url |-> <<>>, name |-> "", version |-> ""]

References ==
  { [parses |-> TRUE,  long |-> TRUE,  url |-> <<"a", "b", "c">>, name |-> "foo", version |-> "1.2.3"],
    [parses |-> TRUE,  long |-> TRUE,  url |-> <<"c", "a">>,      name |-> "bar", version |-> "0.1.0"],
    [parses |-> TRUE,  long |-> TRUE,  url |-> <<"b", "a">>,      name |-> "foo", version |-> "2.0.0"],
    [parses |-> TRUE,  long |-> TRUE,  url |-> <<"a">>,           name |-> "",    version |-> ""],
    [parses |-> TRUE,  long |-> FALSE, url |-> <<>>,              name |-> "foo", version |-> ""],
    [parses |-> FALSE, long |-> FALSE, url |-> <<>>,              name |-> "",    version |-> ""] }

\* GCSChartURLMatcher: the URL names a bucket and a chart in it.
GCSChartURLMatches(URL) == Len(URL) >= 2

\* ParseGCSChartReference(r)
ParseGCSChartReference(r) ==
  IF ~r.parses THEN [l |-> NoRef, err |-> "InvalidReference"]
  ELSE IF ~r.long THEN [l |-> NoRef, err |-> "InvalidReference"]
  ELSE IF ~GCSChartURLMatches(r.url) THEN [l |-> NoRef, err |-> "InvalidReference"]
  ELSE [l |-> r, err |-> ""]

\* fmt.Sprintf("%s-%s.tgz", l.Name, l.Version)
ArchiveName(l) == <<l.name, "-", l.version, ".tgz">>

\* r.GetChart(name): the archive of that name out of the repository, or an
\* error when the repository does not give it.
NoChart == [archive |-> <<>>, from |-> ""]
GetChart(r, name, found) ==
  IF found THEN [c |-> [archive |-> name, from |-> r.name], err |-> ""]
  ELSE [c |-> NoChart, err |-> "ChartNotFound"]

\* The calls the threads make.
ByName(n) == [op |-> "GetRepoByName", name |-> n, url |-> <<>>, ref |-> NoRef]
ByURL(u) == [op |-> "GetRepoByURL", name |-> "", url |-> u, ref |-> NoRef]
ByReference(r) == [op |-> "GetChartByReference", name |-> "", url |-> <<>>, ref |-> r]
NoCall == [op |-> "", name |-> "", url |-> <<>>, ref |-> NoRef]

CallNames == {"r1", "r2", "nx"}
CallURLs == {<<"a", "b", "c">>, <<"b", "a">>, <<"c", "a">>}
Calls == {ByName(n) : n \in CallNames} \cup {ByURL(u) : u \in CallURLs}

\* What a call returned, and what it did on the way: whether the name was
\* registered when the call was made (fresh: it was not), whether the call
\* asked the descriptor service (looked) and whether it had a backing store
\* constructed (made); for GetChartByReference also the chart returned and the
\* name GetChart was called with (asked, <<>> when it was not called).
NoReturn == [h |-> NoHandle, err |-> "", fresh |-> FALSE, looked |-> FALSE, made |-> FALSE,
             chart |-> NoChart, asked |-> <<>>]

RegInit ==
  /\ repos = <<>>
  /\ lock = 0
  /\ pc = [t \in Threads |-> "idle"]
  /\ call = [t \in Threads |-> NoCall]
  /\ cr = [t \in Threads |-> [r |-> NoDescriptor, h |-> NoHandle]]
  /\ ret = [t \in Threads |-> NoReturn]
  /\ built = [n \in {d.name : d \in Descriptors} |-> 0]
  /\ svc = [n \in {d.name : d \in Descriptors} |-> CHOOSE d \in Descriptors : d.name = n]
  /\ alive = TRUE

Init == CatInit /\ RegInit /\ DiskInit

\* return: the deferred rp.Unlock() and the result handed to the caller.  A
\* return out of the lookup step has asked the descriptor service.  In
\* GetChartByReference the caller is the fetch, which an error skips.
Return(t, h, err) ==
  /\ ret' = [ret EXCEPT ![t].h = h, ![t].err = err,
                        ![t].looked = @ \/ pc[t] = "lookup"]
  /\ lock' = 0
  /\ pc' = [pc EXCEPT ![t] = IF call[t].op = "GetChartByReference" /\ err = ""
                               THEN "fetch" ELSE "done"]

\* A thread calls GetRepoByName, GetRepoByURL or GetChartByReference.
Call(t, c) ==
  /\ alive /\ pc[t] \in {"idle", "done"}
  /\ pc' = [pc EXCEPT ![t] = IF c.op = "GetChartByReference" THEN "parse" ELSE "wait"]
  /\ call' = [call EXCEPT ![t] = c]
  /\ cr' = [cr EXCEPT ![t] = [r |-> NoDescriptor, h |-> NoHandle]]
  /\ ret' = [ret EXCEPT ![t] =
               [NoReturn EXCEPT !.fresh = (c.op = "GetRepoByName" /\ c.name \notin DOMAIN repos)]]
  /\ UNCHANGED <<repos, lock, built, svc, alive>>
  /\ UNCHANGED catVars

\* A mutant of Lock: the mutex is taken without waiting for its holder.
LockNoExclusion(t) ==
  /\ alive /\ pc[t] = "wait"
  /\ lock' = t
  /\ pc' = [pc EXCEPT ![t] = "locked"]
  /\ UNCHANGED <<repos, call, cr, ret, built, svc, alive>>
  /\ UNCHANGED catVars

\* rp.Lock()
Lock(t) ==
  /\ alive /\ pc[t] = "wait" /\ lock = 0
  /\ lock' = t
  /\ pc' = [pc EXCEPT ![t] = "locked"]
  /\ UNCHANGED <<repos, call, cr, ret, built, svc, alive>>
  /\ UNCHANGED catVars

\* A mutant of the look into rp.repos: GetRepoByURL does not search the
\* registered handles.
CachedByNameOnly(t, order) ==
  /\ alive /\ pc[t] = "locked"
  /\ LET r == IF call[t].op = "GetRepoByName"
                THEN (IF call[t].name \in DOMAIN repos THEN repos[call[t].name] ELSE NoHandle)
                ELSE NoHandle
     IN  IF r # NoHandle
           THEN Return(t, r, "")
           ELSE /\ pc' = [pc EXCEPT ![t] = "lookup"]
                /\ UNCHANGED <<lock, ret>>
  /\ UNCHANGED <<repos, call, cr, built, svc, alive>>
  /\ UNCHANGED catVars

\* The look into rp.repos: by name, or findRepoByURL.
Cached(t, order) ==
  /\ alive /\ pc[t] = "locked"
  /\ LET r == IF call[t].op = "GetRepoByName"
                THEN (IF call[t].name \in DOMAIN repos THEN repos[call[t].name] ELSE NoHandle)
                ELSE findRepoByURL(repos, call[t].url, order)
     IN  IF r # NoHandle
           THEN Return(t, r, "")
           ELSE /\ pc' = [pc EXCEPT ![t] = "lookup"]
                /\ UNCHANGED <<lock, ret>>
  /\ UNCHANGED <<repos, call, cr, built, svc, alive>>
  /\ UNCHANGED catVars

\* rp.rs.Get(repoName) or rp.rs.GetByURL(URL)
Lookup(t) ==
  /\ alive /\ pc[t] = "lookup"
  /\ IF call[t].op = "GetRepoByName"
       THEN LET g == ServiceGet(svc, call[t].name)
            IN  IF g.err # ""
                  THEN /\ Return(t, NoHandle, g.err)
                       /\ cr' = cr
                  ELSE /\ cr' = [cr EXCEPT ![t].r = g.r]
                       /\ pc' = [pc EXCEPT ![t] = "create"]
                       /\ ret' = [ret EXCEPT ![t].looked = TRUE]
                       /\ lock' = lock
       ELSE IF ServiceGetByURL(svc, call[t].url) = {}
              THEN /\ Return(t, NoHandle, "RepoNotFound")
                   /\ cr' = cr
              ELSE \E d \in ServiceGetByURL(svc, call[t].url) :
                     /\ cr' = [cr EXCEPT ![t].r = d]
                     /\ pc' = [pc EXCEPT ![t] = "create"]
                     /\ ret' = [ret EXCEPT ![t].looked = TRUE]
                     /\ lock' = lock
  /\ UNCHANGED <<repos, call, built, svc, alive>>
  /\ UNCHANGED catVars

\* A mutant of createRepoByType: a descriptor of any type is given to
\* GetGCSRepo.
CreateRepoByTypeAnyType(t) ==
  /\ alive /\ pc[t] = "create"
  /\ LET r == cr[t].r
         g == GetGCSRepo(r)
     IN  IF FALSE
           THEN /\ Return(t, NoHandle, "UnknownRepoType")
                /\ UNCHANGED <<cr, built, alive>>
         ELSE IF g.fatal
           THEN /\ alive' = FALSE
                /\ UNCHANGED <<cr, built, ret, lock, pc>>
         ELSE IF g.err # ""
           THEN /\ Return(t, NoHandle, g.err)
                /\ UNCHANGED <<cr, built, alive>>
         ELSE /\ cr' = [cr EXCEPT ![t].h = g.h]
              /\ built' = [built EXCEPT ![r.name] = IF @ < MaxBuilt THEN @ + 1 ELSE @]
              /\ ret' = [ret EXCEPT ![t].made = TRUE]
              /\ pc' = [pc EXCEPT ![t] = "register"]
              /\ UNCHANGED <<lock, alive>>
  /\ UNCHANGED <<repos, call, svc>>
  /\ UNCHANGED catVars

\* createRepoByType, with GetGCSRepo for the one type it knows.
CreateRepoByType(t) ==
  /\ alive /\ pc[t] = "create"
  /\ LET r == cr[t].r
         g == GetGCSRepo(r)
     IN  IF r.type # GCSRepoType
           THEN /\ Return(t, NoHandle, "UnknownRepoType")
                /\ UNCHANGED <<cr, built, alive>>
         ELSE IF g.fatal
           THEN /\ alive' = FALSE
                /\ UNCHANGED <<cr, built, ret, lock, pc>>
         ELSE IF g.err # ""
           THEN /\ Return(t, NoHandle, g.err)
                /\ UNCHANGED <<cr, built, alive>>
         ELSE /\ cr' = [cr EXCEPT ![t].h = g.h]
              /\ built' = [built EXCEPT ![r.name] = IF @ < MaxBuilt THEN @ + 1 ELSE @]
              /\ ret' = [ret EXCEPT ![t].made = TRUE]
              /\ pc' = [pc EXCEPT ![t] = "register"]
              /\ UNCHANGED <<lock, alive>>
  /\ UNCHANGED <<repos, call, svc>>
  /\ UNCHANGED catVars

\* A mutant of createRepo: the handle is stored whether or not the name is
\* taken.
CreateRepoOverwrite(t) ==
  /\ alive /\ pc[t] = "register"
  /\ repos' = [n \in DOMAIN repos \cup {cr[t].h.name} |->
                 IF n = cr[t].h.name THEN cr[t].h ELSE repos[n]]
  /\ Return(t, cr[t].h, "")
  /\ UNCHANGED <<call, cr, built, svc, alive>>
  /\ UNCHANGED catVars

\* createRepo
CreateRepo(t) ==
  /\ alive /\ pc[t] = "register"
  /\ LET name == cr[t].h.name
     IN  IF name \in DOMAIN repos
           THEN /\ Return(t, NoHandle, "DuplicateRepository")
                /\ repos' = repos
           ELSE /\ repos' = [n \in DOMAIN repos \cup {name} |->
                               IF n = name THEN cr[t].h ELSE repos[n]]
                /\ Return(t, cr[t].h, "")
  /\ UNCHANGED <<call, cr, built, svc, alive>>
  /\ UNCHANGED catVars

\* The descriptor service's repository r1 is deleted and created again with
\* another URL.
Recreate ==
  /\ alive /\ svc["r1"].url # MovedURL
  /\ svc' = [svc EXCEPT !["r1"].url = MovedURL]
  /\ UNCHANGED <<repos, lock, pc, call, cr, ret, built, alive>>
  /\ UNCHANGED catVars

\* GetChartByReference up to its call of GetRepoByURL: the reference is
\* parsed and the locator's long form is the URL to resolve.
ParseRef(t) ==
  /\ alive /\ pc[t] = "parse"
  /\ LET p == ParseGCSChartReference(call[t].ref)
     IN  IF p.err # ""
           THEN /\ ret' = [ret EXCEPT ![t].err = p.err]
                /\ pc' = [pc EXCEPT ![t] = "done"]
                /\ call' = call
         ELSE IF ~p.l.long
           THEN /\ ret' = [ret EXCEPT ![t].err = "InvalidReference"]
                /\ pc' = [pc EXCEPT ![t] = "done"]
                /\ call' = call
         ELSE /\ call' = [call EXCEPT ![t].url = p.l.url]
              /\ pc' = [pc EXCEPT ![t] = "wait"]
              /\ ret' = ret
  /\ UNCHANGED <<repos, lock, cr, built, svc, alive>>
  /\ UNCHANGED catVars

\* A mutant of Fetch: the repository is returned with the error of GetChart.
FetchKeepsHandle(t, found) ==
  /\ alive /\ pc[t] = "fetch"
  /\ LET name == ArchiveName(call[t].ref)
         g == GetChart(ret[t].h, name, found)
     IN  ret' = [ret EXCEPT ![t].asked = name, ![t].chart = g.c, ![t].err = g.err]
  /\ pc' = [pc EXCEPT ![t] = "done"]
  /\ UNCHANGED <<repos, lock, call, cr, built, svc, alive>>
  /\ UNCHANGED catVars

\* GetChartByReference after GetRepoByURL has returned r: r.GetChart(name),
\* and the chart with r, or the error with neither.
Fetch(t, found) ==
  /\ alive /\ pc[t] = "fetch"
  /\ LET name == ArchiveName(call[t].ref)
         g == GetChart(ret[t].h, name, found)
     IN  IF g.err # ""
           THEN ret' = [ret EXCEPT ![t].asked = name, ![t].h = NoHandle, ![t].err = g.err]
           ELSE ret' = [ret EXCEPT ![t].asked = name, ![t].chart = g.c]
  /\ pc' = [pc EXCEPT ![t] = "done"]
  /\ UNCHANGED <<repos, lock, call, cr, built, svc, alive>>
  /\ UNCHANGED catVars

NextRegistry ==
  \/ \E t \in Threads, c \in Calls : Call(t, c)
  \/ \E t \in Threads : Lock(t)
  \/ \E t \in Threads : \E order \in Orders(DOMAIN repos) : Cached(t, order)
  \/ \E t \in Threads : Lookup(t)
  \/ \E t \in Threads : CreateRepoByType(t)
  \/ \E t \in Threads : CreateRepo(t)
  \/ Recreate

SpecRegistry == Init /\ [][NextRegistry]_vars

\* The steps of a call that holds the lock.  They are calls that return, and
\* the Go scheduler runs a runnable goroutine: weak fairness.  sync.Mutex
\* hands the lock to a goroutine that has waited for it (starvation mode):
\* strong fairness for Lock.  Nothing obliges a thread to call, nor the
\* service to change.
Resolve(t) ==
  \/ \E order \in Orders(DOMAIN repos) : Cached(t, order)
  \/ Lookup(t)
  \/ CreateRepoByType(t)
  \/ CreateRepo(t)

SpecRegistryFair ==
  /\ Init /\ [][NextRegistry]_vars
  /\ \A t \in Threads : SF_vars(Lock(t)) /\ WF_vars(Resolve(t))

\* Threads that call GetChartByReference.
NextChart ==
  \/ \E t \in Threads, r \in References : Call(t, ByReference(r))
  \/ \E t \in Threads : ParseRef(t)
  \/ \E t \in Threads : Lock(t)
  \/ \E t \in Threads : \E order \in Orders(DOMAIN repos) : Cached(t, order)
  \/ \E t \in Threads : Lookup(t)
  \/ \E t \in Threads : CreateRepoByType(t)
  \/ \E t \in Threads : CreateRepo(t)
  \/ \E t \in Threads, found \in BOOLEAN : Fetch(t, found)

SpecChart == Init /\ [][NextChart]_vars

Spec == Init /\ [][Next]_vars


(***************************************************************************)
(* Claims about Merge and Get (specification Spec)                         *)
(***************************************************************************)
Receiver == idx[last.recv]

ListOf(i, name) == IF name \in DOMAIN i.entries THEN i.entries[name] ELSE <<>>

HasVersion(i, name, version) ==
  \E k \in 1..Len(ListOf(i, name)) : ListOf(i, name)[k].version = version

\* The last operation was a Merge, and it returned.
Merged == last.op = "Merge" /\ last.err = ""

\* C1: Merge never overwrites.  After Merge(other) every record the receiver
\* held before is still in the receiver, at the same position of the same
\* list and equal in every field (digest, locations, metadata), and every
\* Get(name, version) that succeeded on the receiver before returns the same
\* record afterwards.
C1_MergeNeverOverwrites ==
  Merged =>
    /\ \A n \in DOMAIN last.pre.entries :
         /\ n \in DOMAIN Receiver.entries
         /\ Len(Receiver.entries[n]) >= Len(last.pre.entries[n])
         /\ \A k \in 1..Len(last.pre.entries[n]) :
              Receiver.entries[n][k] = last.pre.entries[n][k]
    /\ \A n \in DOMAIN last.pre.entries, v \in {"", "1.0.0", "2.0.0"} :
         Get(last.pre, n, v).err = "" => Get(Receiver, n, v) = Get(last.pre, n, v)

\* C1 witness: a Merge of another catalog that holds a (name, version) of the
\* receiver under a different digest.
C1_Witness ==
  /\ Merged
  /\ last.recv # last.other
  /\ \E n \in DOMAIN last.pre.entries \cap DOMAIN last.arg.entries :
       \E k \in 1..Len(last.pre.entries[n]), m \in 1..Len(last.arg.entries[n]) :
         /\ last.pre.entries[n][k].version = last.arg.entries[n][m].version
         /\ last.pre.entries[n][k].digest # last.arg.entries[n][m].digest

\* C2: Merge adds every missing entry.  If the receiver held no record with
\* the name and the exact version string of a record of the other catalog
\* (the empty version string included), then after Merge(other) the
\* receiver's list for that name holds a record with that version.
C2_MergeAddsEveryMissing ==
  Merged =>
    \A n \in DOMAIN last.arg.entries :
      \A k \in 1..Len(last.arg.entries[n]) :
        LET r == last.arg.entries[n][k]
        IN  ~HasVersion(last.pre, r.name, r.version)
              => HasVersion(Receiver, r.name, r.version)

Unique(i) ==
  \A n \in DOMAIN i.entries :
    \A k, m \in 1..Len(i.entries[n]) :
      k # m => i.entries[n][k].version # i.entries[n][m].version

\* C8, as claimed: in every catalog state reachable from a fresh catalog
\* through Add and Merge, no list holds two records with the same version
\* string.
C8_UniqueAfterAddAndMerge == \A c \in Cats : Unique(idx[c])

\* C8, amended: Add makes no uniqueness check.  Merge keeps a catalog free
\* of duplicate versions, and so does an Add of a (name, version) the
\* receiver does not hold; an Add of a (name, version) the receiver holds
\* leaves two records with that version in the list.
C8_UniqueKeptByMergeAndAddOfAbsent ==
  /\ (Merged /\ Unique(last.pre)) => Unique(Receiver)
  /\ (last.op = "Add" /\ Unique(last.pre)) =>
       (Unique(Receiver) <=> ~HasVersion(last.pre, last.name, last.version))

\* C8 witness: a Merge into a catalog free of duplicates, whose other
\* catalog held a version the receiver held already next to one it did not
\* hold.
C8_Witness ==
  /\ Merged /\ last.recv # last.other /\ Unique(last.pre)
  /\ \E n \in DOMAIN last.arg.entries :
       /\ \E k \in 1..Len(last.arg.entries[n]) :
            HasVersion(last.pre, n, last.arg.entries[n][k].version)
       /\ \E k \in 1..Len(last.arg.entries[n]) :
            ~HasVersion(last.pre, n, last.arg.entries[n][k].version)

\* C8 second witness: an Add of a version the receiver held already.
C8_WitnessAddTwice ==
  last.op = "Add" /\ Unique(last.pre) /\ HasVersion(last.pre, last.name, last.version)

\* C9: Merge is idempotent.  Merging a catalog into itself leaves it as it
\* was (same names, same records, same order), and after Merge(other) a
\* second Merge of the same other catalog, in whatever order its names are
\* visited, changes nothing.
C9_MergeIdempotent ==
  Merged =>
    /\ last.recv = last.other => Receiver = last.pre
    /\ \A order \in Orders(DOMAIN last.arg.entries) :
         Merge(Receiver, last.arg, order) = Receiver

\* C9 witness: a catalog holding at least two records was merged into itself.
C9_Witness == Merged /\ last.recv = last.other /\ Size(last.pre) >= 2

\* C9 second witness: a Merge that copied a record into the receiver.
C9_WitnessCopied == Merged /\ last.recv # last.other /\ Size(Receiver) > Size(last.pre)

Matches(vs, version) == {k \in 1..Len(vs) : vs[k].version = version}

Min(S) == CHOOSE k \in S : \A m \in S : k <= m

C10_WitnessEmptyList == last.op = "Get" /\ last.err = "ErrNoChartVersion" /\ last.version # ""
C10_WitnessSecondMatch ==
  /\ last.op = "Get" /\ last.err = "" /\ last.version # ""
  /\ Cardinality(Matches(ListOf(last.pre, last.name), last.version)) >= 2
  /\ \E k \in Matches(ListOf(last.pre, last.name), last.version) :
       ListOf(last.pre, last.name)[k] # last.cv


(***************************************************************************)
(* SpecSort: SortEntries on a catalog whose list for "x" is any list of at *)
(* most MaxSortLen versions, and whose list for "y", when there is one,    *)
(* starts with a version that does not parse.                              *)
(***************************************************************************)
SortVersions == {"1.0.0", "2.0.0-alpha", "2.0.0", "v2.0.0", "bad", ""}

RECURSIVE AddAll(_, _, _)
AddAll(i, name, versions) ==
  IF versions = <<>> THEN i
  ELSE AddAll(Add(i, [name |-> name, version |-> Head(versions)],
                  <<name, Head(versions)>>, NoBaseURL, "AAA"),
              name, Tail(versions))

SortInit ==
  /\ \E n \in 0..MaxSortLen : \E vs \in [1..n -> SortVersions] :
       \E ys \in {<<>>, <<"bad", "1.0.0", "2.0.0">>} :
         idx = [c \in Cats |->
                  IF c = 1 THEN AddAll(AddAll(NewIndexFile, "x", vs), "y", ys)
                  ELSE NewIndexFile]
  /\ last = Last("New", 0, 0, NewIndexFile, NewIndexFile, "", "", NoResult)
  /\ RegInit /\ DiskInit

NextSort == SortAct(1)

SpecSort == SortInit /\ [][NextSort]_vars

WellFormed(cv) == NewVersion(cv.version).ok

Sorted == last.op = "SortEntries"

\* The records of vs that are equal to cv.
Count(vs, cv) == Cardinality({k \in 1..Len(vs) : vs[k] = cv})

\* C6: after SortEntries, for every name whose list holds a well-formed
\* version, the record at index 0 is well-formed and no well-formed version
\* the list held before the sort is higher; the sort only reorders.
C6_SortPutsMaximumFirst ==
  Sorted =>
    /\ DOMAIN Receiver.entries = DOMAIN last.pre.entries
    /\ \A n \in DOMAIN last.pre.entries :
         LET before == last.pre.entries[n]
             after  == Receiver.entries[n]
         IN  /\ Len(after) = Len(before)
             /\ \A k \in 1..Len(before) : Count(after, before[k]) = Count(before, before[k])
             /\ (\E k \in 1..Len(before) : WellFormed(before[k])) =>
                  /\ WellFormed(after[1])
                  /\ \A k \in 1..Len(before) :
                       WellFormed(before[k]) =>
                         ~LessThan(NewVersion(after[1].version), NewVersion(before[k].version))

\* C6 witness: SortEntries on a list that started with a malformed version
\* and held its highest well-formed version last, behind a lower one.
C6_Witness ==
  /\ Sorted
  /\ LET before == ListOf(last.pre, "x")
     IN  /\ Len(before) >= 3
         /\ ~WellFormed(before[1])
         /\ WellFormed(before[2]) /\ WellFormed(before[Len(before)])
         /\ LessThan(NewVersion(before[2].version), NewVersion(before[Len(before)].version))

\* C7: after SortEntries, in every list all well-formed versions come before
\* all malformed ones, and the well-formed ones are in non-increasing
\* semantic-version order.
C7_SortWellFormedFirstDescending ==
  Sorted =>
    \A n \in DOMAIN Receiver.entries :
      LET after == Receiver.entries[n]
      IN  \A k, m \in 1..Len(after) :
            k < m =>
              /\ WellFormed(after[m]) => WellFormed(after[k])
              /\ WellFormed(after[k]) /\ WellFormed(after[m]) =>
                   ~LessThan(NewVersion(after[k].version), NewVersion(after[m].version))

\* C7 witness: SortEntries on a list in which malformed and well-formed
\* versions alternated, two of each, with the malformed ones in front.
C7_Witness ==
  /\ Sorted
  /\ LET before == ListOf(last.pre, "x")
     IN  /\ Len(before) = 4
         /\ ~WellFormed(before[1]) /\ WellFormed(before[2])
         /\ ~WellFormed(before[3]) /\ WellFormed(before[4])
         /\ before[1] # before[3]
         /\ LessThan(NewVersion(before[2].version), NewVersion(before[4].version))

(***************************************************************************)
(* Claims about the repository provider (specification SpecRegistry)       *)
(***************************************************************************)
Registered == {repos[n] : n \in DOMAIN repos}

\* The names GetRepoByName can resolve: the service holds a descriptor, of
\* the one type the provider constructs, and the construction succeeds.
Resolvable ==
  {n \in DOMAIN svc : /\ svc[n].type = GCSRepoType
                       /\ ~GetGCSRepo(svc[n]).fatal
                       /\ GetGCSRepo(svc[n]).err = ""}

\* All threads have returned from GetRepoByName(n), each called while n was
\* not registered.
AllResolvedFresh(n) ==
  \A t \in Threads :
    pc[t] = "done" /\ call[t] = ByName(n) /\ ret[t].fresh

\* C3: when all threads call GetRepoByName for the same resolvable name
\* while it is not registered, then, however their steps interleave, one
\* backing store is constructed, by exactly one of the calls, the registry
\* holds one handle for the name, and every caller receives that handle and
\* no error.
C3_OneConstructionOneHandle ==
  \A n \in Resolvable :
    AllResolvedFresh(n) =>
      /\ n \in DOMAIN repos
      /\ Cardinality({h \in Registered : h.name = n}) = 1
      /\ built[n] = 1
      /\ Cardinality({t \in Threads : ret[t].made}) = 1
      /\ \A t \in Threads : ret[t].err = "" /\ ret[t].h = repos[n]

\* C3 witness: every thread called GetRepoByName("r2") before any of them
\* had registered it, and all have returned.
C3_Witness == AllResolvedFresh("r2") /\ "r2" \in Resolvable

\* The registered handles whose URL is a prefix of URL.
MatchingURL(URL) == {h \in Registered : HasPrefix(URL, h.url)}

\* C4: a GetRepoByURL that finds a registered handle whose URL is a prefix
\* of the requested URL returns, with no error, a registered handle whose
\* URL is a prefix of the requested URL and at least as long as the URL of
\* every other registered handle that matches; it does not ask the
\* descriptor service, constructs nothing and leaves the registry as it was.
C4_LongestRegisteredPrefix ==
  [][\A t \in Threads :
       ( /\ pc[t] = "locked" /\ pc'[t] # "locked"
         /\ call[t].op = "GetRepoByURL"
         /\ MatchingURL(call[t].url) # {} )
       => /\ pc'[t] = "done"
          /\ ret'[t].err = ""
          /\ ret'[t].h \in MatchingURL(call[t].url)
          /\ \A h \in MatchingURL(call[t].url) : Len(h.url) <= Len(ret'[t].h.url)
          /\ ~ret'[t].looked /\ ~ret'[t].made
          /\ repos' = repos /\ built' = built /\ lock' = 0]_vars

\* C4 witness: GetRepoByURL returned the handle with the longer URL while a
\* handle with a shorter matching URL was registered too, without asking the
\* descriptor service.
C4_Witness ==
  \E t \in Threads :
    /\ pc[t] = "done" /\ call[t].op = "GetRepoByURL"
    /\ ret[t].err = "" /\ ~ret[t].looked /\ ~ret[t].made
    /\ ret[t].h \in MatchingURL(call[t].url)
    /\ \E h \in MatchingURL(call[t].url) : Len(h.url) < Len(ret[t].h.url)

\* C5: registration never replaces or removes an entry.  Each name maps to
\* one handle, the handle of that name; a registered handle stays registered
\* under its name, unchanged, in every later state; and createRepo with a
\* handle whose name is registered returns DuplicateRepository and no
\* handle, and leaves the map as it was.
C5_RegistrationNeverReplaces ==
  /\ [](\A n \in DOMAIN repos : repos[n].name = n /\ repos[n] # NoHandle)
  /\ [][/\ \A n \in DOMAIN repos : n \in DOMAIN repos' /\ repos'[n] = repos[n]
         /\ \A t \in Threads :
              (pc[t] = "register" /\ pc'[t] # "register" /\ cr[t].h.name \in DOMAIN repos)
              => /\ ret'[t].err = "DuplicateRepository"
                 /\ ret'[t].h = NoHandle
                 /\ repos' = repos]_vars

\* C5 witness: a call returned DuplicateRepository for r1, constructed with
\* the URL r1 moved to, and r1 is registered with the URL it had first.
C5_Witness ==
  \E t \in Threads :
    /\ pc[t] = "done" /\ ret[t].err = "DuplicateRepository"
    /\ cr[t].h.name = "r1" /\ cr[t].h.url = MovedURL
    /\ "r1" \in DOMAIN repos /\ repos["r1"].url # MovedURL

(***************************************************************************)
(* Get with an empty version (specification Spec)                          *)
(***************************************************************************)
\* C11: Get with an empty version returns the chart with the highest
\* version of the name: no well-formed version of the list is higher than
\* the version of the record returned, in every catalog state reached
\* through Add, Merge and SortEntries.
C11_GetEmptyVersionReturnsHighest ==
  (last.op = "Get" /\ last.version = "" /\ last.err = "") =>
    \A k \in 1..Len(ListOf(last.pre, last.name)) :
      LET cv == ListOf(last.pre, last.name)[k]
      IN  WellFormed(cv) =>
            /\ WellFormed(last.cv)
            /\ ~LessThan(NewVersion(last.cv.version), NewVersion(cv.version))

(***************************************************************************)
(* The comparator of the sort (specification SpecSort)                     *)
(***************************************************************************)
\* The pairs of different positions of a list.
Pairs(vs) == {p \in (1..Len(vs)) \X (1..Len(vs)) : p[1] # p[2]}

\* C15, as claimed: for every pair of well-formed versions Less(a, b) is
\* the negation of Less(b, a).
C15_LessIsNegationOfConverse ==
  \A n \in DOMAIN idx[1].entries :
    LET vs == idx[1].entries[n]
    IN  \A p \in Pairs(vs) :
          (WellFormed(vs[p[1]]) /\ WellFormed(vs[p[2]])) =>
            (Less(vs, p[1], p[2]) <=> ~Less(vs, p[2], p[1]))

\* C15, amended: on well-formed versions Less is the strict semantic-version
\* order, so Less(a, b) and Less(b, a) never hold together and one is the
\* negation of the other exactly when the two versions do not compare
\* equal; for versions that compare equal both are false.  Less(a, b) is
\* true whenever a is malformed, whatever b is, and false when only b is
\* malformed.
C15_LessIsStrictOnWellFormed ==
  \A n \in DOMAIN idx[1].entries :
    LET vs == idx[1].entries[n]
    IN  \A p \in Pairs(vs) :
          LET a == p[1]
              b == p[2]
              i == NewVersion(vs[a].version)
              j == NewVersion(vs[b].version)
          IN  /\ (i.ok /\ j.ok) =>
                   /\ Less(vs, a, b) <=> LessThan(i, j)
                   /\ ~(Less(vs, a, b) /\ Less(vs, b, a))
                   /\ (Less(vs, a, b) <=> ~Less(vs, b, a)) <=> (Compare(i, j) # 0)
              /\ ~i.ok => Less(vs, a, b)
              /\ (i.ok /\ ~j.ok) => ~Less(vs, a, b)

\* C15 witness: a sorted list that holds two well-formed versions that
\* compare equal, a well-formed version that is lower, and a malformed one.
C15_Witness ==
  /\ Sorted
  /\ LET vs == ListOf(Receiver, "x")
     IN  /\ \E p \in Pairs(vs) :
               /\ WellFormed(vs[p[1]]) /\ WellFormed(vs[p[2]])
               /\ vs[p[1]].version # vs[p[2]].version
               /\ Compare(NewVersion(vs[p[1]].version), NewVersion(vs[p[2]].version)) = 0
         /\ \E p \in Pairs(vs) :
               /\ WellFormed(vs[p[1]]) /\ WellFormed(vs[p[2]])
               /\ LessThan(NewVersion(vs[p[1]].version), NewVersion(vs[p[2]].version))
         /\ \E p \in Pairs(vs) : ~WellFormed(vs[p[1]]) /\ WellFormed(vs[p[2]])

\* C15 second witness: a list that holds two malformed versions, for which
\* Less is true both ways.
C15_WitnessBothMalformed ==
  /\ Sorted
  /\ \E p \in Pairs(ListOf(Receiver, "x")) :
      LET vs == ListOf(Receiver, "x")
      IN
        /\ ~WellFormed(vs[p[1]]) /\ ~WellFormed(vs[p[2]])
        /\ Less(vs, p[1], p[2]) /\ Less(vs, p[2], p[1])

(***************************************************************************)
(* SpecLoad: LoadIndex on one document.  The document is any of: bytes     *)
(* that are not YAML; a current-format document; a document without        *)
(* apiVersion whose top-level keys are none, one key of at most MaxKeyLen  *)
(* tokens, or that key and a second one.  The value under the first key    *)
(* has no descriptor, a descriptor with an empty name, or a descriptor     *)
(* with a name; the value under the second key is an entry or a scalar.    *)
(***************************************************************************)
MaxKeyLen == 5

KeyTokens == {"foo", "-", "1.2.3", ".tgz"}

LoadKeys == UNION {[1..n -> KeyTokens] : n \in 0..MaxKeyLen}

OtherKey == <<"foo", "-", "2.0.0">>

Chartfiles ==
  { NoChartfile,
    [present |-> TRUE, name |-> "", version |-> "0.1.0"],
    [present |-> TRUE, name |-> "bar", version |-> "0.1.0"] }

\* The value under the first key, and the two values under the second one.
FirstItem(chartfile) ==
  [object |-> TRUE, checksum |-> "BBB", url |-> <<"http://h", "first.tgz">>, chartfile |-> chartfile]
OtherItems ==
  { [object |-> TRUE, checksum |-> "CCC", url |-> <<"http://h", "other.tgz">>, chartfile |-> NoChartfile],
    [object |-> FALSE, checksum |-> "", url |-> <<>>, chartfile |-> NoChartfile] }

LegacyMaps ==
  {NoLegacy}
    \cup {[k \in {key} |-> FirstItem(cf)] : key \in LoadKeys, cf \in Chartfiles}
    \cup {[k \in {key, OtherKey} |-> IF k = key THEN FirstItem(cf) ELSE o] :
            key \in LoadKeys, cf \in Chartfiles, o \in OtherItems}

LoadDocs ==
  {[valid |-> TRUE, apiVersion |-> "", entries |-> <<>>, hasEntries |-> FALSE, legacy |-> l] :
     l \in LegacyMaps}
    \cup {[valid |-> TRUE, apiVersion |-> v, entries |-> e, hasEntries |-> TRUE, legacy |-> l] :
            v \in {"v1", "v2"},
            l \in {NoLegacy, [k \in {OtherKey} |-> FirstItem(NoChartfile)]},
            e \in {<<>>, SetEntry(<<>>, "x", <<>>),
                   Add(NewIndexFile, [name |-> "x", version |-> "1.0.0"],
                       <<"x-1.0.0.tgz">>, NoBaseURL, "AAA").entries}}
    \cup {[valid |-> TRUE, apiVersion |-> v, entries |-> <<>>, hasEntries |-> FALSE, legacy |-> l] :
            v \in {"v1", "v2"},
            l \in {NoLegacy, [k \in {OtherKey} |-> FirstItem(NoChartfile)]}}
    \cup {[valid |-> FALSE, apiVersion |-> "", entries |-> <<>>, hasEntries |-> FALSE,
           legacy |-> NoLegacy]}

\* The bytes LoadIndex is about to be given are held in last.arg.
LoadInit ==
  /\ idx = [c \in Cats |-> NewIndexFile]
  /\ \E doc \in LoadDocs :
       last = Last("Input", 0, 0, NewIndexFile, doc, "", "", NoResult)
  /\ RegInit /\ DiskInit

\* i, err := LoadIndex(data); the catalog returned is kept in idx[1].
LoadDocAct(order) ==
  LET r == LoadIndex(last.arg, order)
  IN  /\ last.op = "Input"
      /\ idx' = [idx EXCEPT ![1] = r.idx]
      /\ last' = Last("LoadIndex", 1, 0, NewIndexFile, last.arg, "", "",
                      [cv |-> NoChartVersion, err |-> r.err])
      /\ UNCHANGED <<regVars, disk>>

NextLoad == \E order \in Orders(DOMAIN last.arg.legacy) : LoadDocAct(order)

SpecLoad == LoadInit /\ [][NextLoad]_vars

Loaded == last.op = "LoadIndex"

\* The records of catalog i, whatever their name.
Records(i) == UNION {{i.entries[n][k] : k \in 1..Len(i.entries[n])} : n \in DOMAIN i.entries}

\* The position of the first "-" of a key, 0 when it has none.
FirstDash(key) ==
  IF \E k \in 1..Len(key) : key[k] = "-"
    THEN Min({k \in 1..Len(key) : key[k] = "-"})
    ELSE 0

\* The entries of the document LoadIndex was given whose descriptor is
\* missing or has an empty name.
KeysWithoutName ==
  {key \in DOMAIN last.arg.legacy :
     ~last.arg.legacy[key].chartfile.present \/ last.arg.legacy[key].chartfile.name = ""}

\* C12: for a legacy entry whose descriptor is missing or has an empty name,
\* the record loaded for it has as name the part of the key before the first
\* "-" and as version the whole part after the first "-", a trailing ".tgz"
\* stripped, or the empty string when the key has no "-"; for every key,
\* also one with more than one "-".
C12_LegacyKeyGivesNameAndVersion ==
  (Loaded /\ last.err = "" /\ last.arg.apiVersion = "") =>
    \A key \in KeysWithoutName :
      LET item == last.arg.legacy[key]
          d    == FirstDash(key)
          name == Spell(IF d = 0 THEN key ELSE SubSeq(key, 1, d - 1))
          ver  == IF d = 0 THEN ""
                  ELSE Spell(TrimSuffixTgz(SubSeq(key, d + 1, Len(key))))
      IN  \E r \in Records(Receiver) :
            /\ r.urls = <<item.url>> /\ r.digest = item.checksum
            /\ r.name = name /\ r.version = ver

C13_WitnessAsIs ==
  /\ Loaded /\ last.err = "" /\ last.arg.apiVersion # ""
  /\ last.arg.entries = <<>> /\ DOMAIN last.arg.legacy # {}
  /\ Size(Receiver) = 0

(***************************************************************************)
(* Files.  The bytes of a YAML document are modelled by what a decoder     *)
(* sees: whether they are YAML at all, the IndexFile fields they spell out *)
(* (top: a function from field names to values, a record being a function *)
(* from the field names written to their values), and the other top-level *)
(* keys (legacy).  A file is <<>> when it does not exist, else <<bytes>>.  *)
(***************************************************************************)
InvalidBytes == [valid |-> FALSE, top |-> <<>>, legacy |-> NoLegacy]
EmptyBytes == [valid |-> TRUE, top |-> <<>>, legacy |-> NoLegacy]

\* The fields of a ChartVersion that are tagged omitempty and modelled.
OmitEmpty == {"name", "version", "digest"}

\* json.Marshal of a ChartVersion: an omitempty field is written only when
\* it is not the empty string; urls is always written.
MarshalRecord(cv) == [f \in {g \in OmitEmpty : cv[g] # ""} \cup {"urls"} |-> cv[f]]

\* A mutant of Marshal: apiVersion is not written.
MarshalNoAPIVersion(i) ==
  [valid |-> TRUE,
   top |-> [f \in {"entries"} |->
              [n \in DOMAIN i.entries |->
                 [k \in 1..Len(i.entries[n]) |-> MarshalRecord(i.entries[n][k])]]],
   legacy |-> NoLegacy]

\* yaml.Marshal(i); a nil Entries map is written as null, which a decoder
\* reads like a missing field.
Marshal(i) ==
  [valid |-> TRUE,
   top |-> [f \in {"apiVersion"} \cup (IF i.nilEntries THEN {} ELSE {"entries"}) |->
              IF f = "apiVersion" THEN i.apiVersion
              ELSE [n \in DOMAIN i.entries |->
                      [k \in 1..Len(i.entries[n]) |-> MarshalRecord(i.entries[n][k])]]],
   legacy |-> NoLegacy]

\* The value of field f of a decoded object, the zero value when the bytes
\* do not hold the field.
Field(y, f, zero) == IF f \in DOMAIN y THEN y[f] ELSE zero

\* json.Unmarshal into a ChartVersion
UnmarshalRecord(y) ==
  [name |-> Field(y, "name", ""), version |-> Field(y, "version", ""),
   urls |-> Field(y, "urls", <<>>), digest |-> Field(y, "digest", "")]

\* What yaml.Unmarshal and yaml.YAMLToJSON make of the bytes: the document
\* LoadIndex works on.
Decode(b) ==
  [valid |-> b.valid,
   apiVersion |-> Field(b.top, "apiVersion", ""),
   entries |-> IF "entries" \in DOMAIN b.top
                 THEN [n \in DOMAIN b.top.entries |->
                         [k \in 1..Len(b.top.entries[n]) |-> UnmarshalRecord(b.top.entries[n][k])]]
                 ELSE <<>>,
   hasEntries |-> "entries" \in DOMAIN b.top,
   legacy |-> b.legacy]

\* ioutil.WriteFile(path, b, mode) on the file old: it writes b, or fails
\* before the file is opened, or fails after the file was truncated, or
\* after a part of b was written.
WriteOutcomes == {"ok", "denied", "truncated", "partial"}

ioWriteFile(old, b, outcome) ==
  CASE outcome = "ok"        -> [disk |-> <<b>>, err |-> ""]
    [] outcome = "denied"    -> [disk |-> old, err |-> "WriteFailure"]
    [] outcome = "truncated" -> [disk |-> <<EmptyBytes>>, err |-> "WriteFailure"]
    [] OTHER                 -> [disk |-> <<InvalidBytes>>, err |-> "WriteFailure"]

\* i.WriteFile(dest, mode)
WriteFile(i, old, outcome) == ioWriteFile(old, Marshal(i), outcome)

\* LoadIndexFile(path)
LoadIndexFile(file, order) ==
  IF file = <<>> THEN [idx |-> NewIndexFile, err |-> "ReadFailure"]
  ELSE LoadIndex(Decode(file[1]), order)

\* A mutant of DownloadIndexFile: the bytes are written before they are
\* loaded.
DownloadIndexFileWriteFirst(resp, old, order, outcome) ==
  IF resp.err # "" THEN [disk |-> old, err |-> resp.err]
  ELSE IF ioWriteFile(old, resp.body, outcome).err # ""
    THEN ioWriteFile(old, resp.body, outcome)
  ELSE [disk |-> <<resp.body>>, err |-> LoadIndex(Decode(resp.body), order).err]

\* DownloadIndexFile(repoName, url, indexFilePath); resp is what http.Get
\* and ioutil.ReadAll come back with.
DownloadIndexFile(resp, old, order, outcome) ==
  IF resp.err # "" THEN [disk |-> old, err |-> resp.err]
  ELSE IF LoadIndex(Decode(resp.body), order).err # ""
    THEN [disk |-> old, err |-> LoadIndex(Decode(resp.body), order).err]
  ELSE ioWriteFile(old, resp.body, outcome)

\* A mutant of the loop of IndexDirectory: an archive whose digest cannot be
\* computed is skipped like one that does not load.
RECURSIVE IndexDirectoryLoopSkipDigest(_, _, _)
IndexDirectoryLoopSkipDigest(index, archives, baseURL) ==
  IF archives = <<>> THEN [idx |-> index, err |-> ""]
  ELSE LET arch == Head(archives)
       IN  IF ~arch.loads \/ ~arch.digestOK
             THEN IndexDirectoryLoopSkipDigest(index, Tail(archives), baseURL)
           ELSE IndexDirectoryLoopSkipDigest(
                  Add(index, arch.md, <<arch.fname>>, baseURL, arch.digest),
                  Tail(archives), baseURL)

\* The loop of IndexDirectory over the archives filepath.Glob found.
RECURSIVE IndexDirectoryLoop(_, _, _)
IndexDirectoryLoop(index, archives, baseURL) ==
  IF archives = <<>> THEN [idx |-> index, err |-> ""]
  ELSE LET arch == Head(archives)
       IN  IF ~arch.loads THEN IndexDirectoryLoop(index, Tail(archives), baseURL)
           ELSE IF ~arch.digestOK THEN [idx |-> index, err |-> "DigestFailure"]
           ELSE IndexDirectoryLoop(
                  Add(index, arch.md, <<arch.fname>>, baseURL, arch.digest),
                  Tail(archives), baseURL)

\* IndexDirectory(dir, baseURL); a directory name that makes a malformed
\* pattern is refused by filepath.Glob.
IndexDirectory(dir, baseURL) ==
  IF dir.badPattern THEN [idx |-> NewIndexFile, err |-> "ErrBadPattern"]
  ELSE IndexDirectoryLoop(NewIndexFile, dir.archives, baseURL)

(***************************************************************************)
(* SpecDir: IndexDirectory on a directory, with and without a base URL.    *)
(* SpecFile: one process that builds catalog 1 with Add, writes it to the  *)
(* index file and loads the file into catalog 2.                           *)
(* SpecFetch: DownloadIndexFile, again and again, into one index file.     *)
(***************************************************************************)
MaxDirLen == 3

\* The *.tgz files a directory can hold, in the order filepath.Glob lists
\* them: charts, a file that is not a chart, charts whose digest cannot be
\* computed.
AllFiles ==
  << [fname |-> "x-1.0.0.tgz", loads |-> TRUE, digestOK |-> TRUE,
      md |-> [name |-> "x", version |-> "1.0.0"], digest |-> "AAA"],
     [fname |-> "x-2.0.0.tgz", loads |-> TRUE, digestOK |-> FALSE,
      md |-> [name |-> "x", version |-> "2.0.0"], digest |-> ""],
     [fname |-> "y.tgz", loads |-> FALSE, digestOK |-> TRUE,
      md |-> [name |-> "", version |-> ""], digest |-> "DDD"],
     [fname |-> "y-1.0.0.tgz", loads |-> TRUE, digestOK |-> TRUE,
      md |-> [name |-> "y", version |-> "1.0.0"], digest |-> "CCC"],
     [fname |-> "z-1.0.0.tgz", loads |-> TRUE, digestOK |-> FALSE,
      md |-> [name |-> "z", version |-> "1.0.0"], digest |-> ""] >>

\* The files of AllFiles at the positions S, from position k on, in order.
RECURSIVE Pick(_, _)
Pick(S, k) ==
  IF k > Len(AllFiles) THEN <<>>
  ELSE (IF k \in S THEN <<AllFiles[k]>> ELSE <<>>) \o Pick(S, k + 1)

Dirs ==
  {[badPattern |-> FALSE, archives |-> Pick(S, 1)] :
     S \in {T \in SUBSET (1..Len(AllFiles)) : Cardinality(T) <= MaxDirLen}}
    \cup {[badPattern |-> TRUE, archives |-> <<>>]}

\* What a repository serves as index.yaml.
Bodies ==
  { Marshal(NewIndexFile),
    Marshal(Add(NewIndexFile, [name |-> "x", version |-> "1.0.0"],
                <<"x-1.0.0.tgz">>, NoBaseURL, "EEE")),
    Marshal(Add(NewIndexFile, [name |-> "y", version |-> ""],
                <<"y.tgz">>, NoBaseURL, "")),
    [valid |-> TRUE, top |-> <<>>,
     legacy |-> [k \in {<<"x", "-", "1.0.0", ".tgz">>} |-> FirstItem(NoChartfile)]],
    [valid |-> TRUE, top |-> <<>>,
     legacy |-> [k \in {OtherKey} |->
                   [object |-> FALSE, checksum |-> "", url |-> <<>>, chartfile |-> NoChartfile]]],
    EmptyBytes,
    InvalidBytes }

Responses ==
  {[err |-> e, body |-> Marshal(NewIndexFile)] : e \in {"TransportFailure", "ReadFailure"}}
    \cup {[err |-> "", body |-> b] : b \in Bodies}

NoError(e) == [cv |-> NoChartVersion, err |-> e]

IndexDirAct(c, dir) ==
  LET r == IndexDirectory(dir, BaseURLOf(c))
  IN  /\ idx' = [idx EXCEPT ![c] = r.idx]
      /\ last' = Last("IndexDirectory", c, 0, idx[c], dir, "", "", NoError(r.err))
      /\ UNCHANGED <<regVars, disk>>

WriteFileAct(outcome) ==
  LET w == WriteFile(idx[1], disk, outcome)
  IN  /\ disk' = w.disk
      /\ last' = Last("WriteFile", 1, 0, disk, idx[1], "", "", NoError(w.err))
      /\ UNCHANGED <<regVars, idx>>

LoadIndexFileAct(order) ==
  LET r == LoadIndexFile(disk, order)
  IN  /\ idx' = IF r.err = "" THEN [idx EXCEPT ![2] = r.idx] ELSE idx
      /\ last' = Last("LoadIndexFile", 2, 0, idx[2], disk, "", "", NoError(r.err))
      /\ UNCHANGED <<regVars, disk>>

DownloadAct(resp, order, outcome) ==
  LET w == DownloadIndexFile(resp, disk, order, outcome)
  IN  /\ disk' = w.disk
      /\ last' = Last("DownloadIndexFile", 0, 0, disk, resp, "", "", NoError(w.err))
      /\ UNCHANGED <<regVars, idx>>

\* The orders a range over the legacy map of the bytes b can take.
LegacyOrders(b) == Orders(DOMAIN b.legacy)

NextDir == \E c \in Cats, dir \in Dirs : IndexDirAct(c, dir)

SpecDir == Init /\ [][NextDir]_vars

NextFile ==
  \/ \E a \in Archives : AddAct(1, a)
  \/ \E outcome \in WriteOutcomes : WriteFileAct(outcome)
  \/ \E order \in (IF disk = <<>> THEN {<<>>} ELSE LegacyOrders(disk[1])) : LoadIndexFileAct(order)

SpecFile == Init /\ [][NextFile]_vars

NextFetch ==
  \E resp \in Responses, outcome \in WriteOutcomes :
    \E order \in LegacyOrders(resp.body) : DownloadAct(resp, order, outcome)

SpecFetch == Init /\ [][NextFetch]_vars

\* C14: a catalog built from a fresh one with Add, written with WriteFile
\* and loaded from the bytes written, comes back with the same names and,
\* under each name, the same records in the same order.
C14_RoundTrip ==
  (last.op = "LoadIndexFile" /\ last.arg = <<Marshal(idx[1])>>) =>
    /\ last.err = ""
    /\ Receiver.apiVersion = idx[1].apiVersion
    /\ DOMAIN Receiver.entries = DOMAIN idx[1].entries
    /\ \A n \in DOMAIN idx[1].entries : Receiver.entries[n] = idx[1].entries[n]

\* C14 witness: the file written from a catalog with two names, one of them
\* with two records of which one has an empty version, was loaded.
C14_Witness ==
  /\ last.op = "LoadIndexFile" /\ last.arg = <<Marshal(idx[1])>>
  /\ Cardinality(DOMAIN idx[1].entries) = 2
  /\ \E n \in DOMAIN idx[1].entries :
       /\ Len(idx[1].entries[n]) = 2
       /\ idx[1].entries[n][2].version = ""
       /\ idx[1].entries[n][1].version # ""

\* The error LoadIndex gives for the body of a response ("" when it loads).
LoadError(resp) ==
  LoadIndex(Decode(resp.body), CHOOSE o \in LegacyOrders(resp.body) : TRUE).err

\* C16: DownloadIndexFile returns the transport error, or the error of
\* LoadIndex on the bytes fetched, and then the index file is as it was
\* before; the file changes only when the bytes fetched load, and when
\* DownloadIndexFile returns no error the file holds those bytes.
C16_DownloadPersistsOnlyWhatLoads ==
  last.op = "DownloadIndexFile" =>
    LET resp == last.arg
    IN  /\ resp.err # "" => (last.err = resp.err /\ disk = last.pre)
        /\ (resp.err = "" /\ LoadError(resp) # "") =>
             (last.err = LoadError(resp) /\ disk = last.pre)
        /\ disk # last.pre => (resp.err = "" /\ LoadError(resp) = "")
        /\ last.err = "" => disk = <<resp.body>>

\* C16 witness: an index file was there, the download fetched bytes that do
\* not load, and the file is as it was.
C16_Witness ==
  /\ last.op = "DownloadIndexFile"
  /\ last.arg.err = "" /\ last.err \in {"ParseFailure", "ErrNoAPIVersion"}
  /\ last.pre # <<>> /\ last.pre # <<last.arg.body>> /\ disk = last.pre

\* The positions of the archives of a directory that load but whose digest
\* cannot be computed.
DigestFails(fs) == {k \in 1..Len(fs) : fs[k].loads /\ ~fs[k].digestOK}

\* The positions of the archives that load and come before the first one
\* whose digest cannot be computed.
Indexed(fs) ==
  {k \in 1..Len(fs) : fs[k].loads /\ \A f \in DigestFails(fs) : k < f}

\* C17: IndexDirectory skips the archives that do not load and reports no
\* error for them; it stops at the first archive that loads but whose
\* digest cannot be computed and returns that error with a catalog of
\* exactly one record for each archive that loads and was listed before it;
\* when no digest fails it returns no error and one record for each archive
\* that loads.
C17_IndexDirectorySkipsAndAborts ==
  (last.op = "IndexDirectory" /\ ~last.arg.badPattern) =>
    LET fs == last.arg.archives
    IN  /\ last.err = (IF DigestFails(fs) = {} THEN "" ELSE "DigestFailure")
        /\ Size(Receiver) = Cardinality(Indexed(fs))
        /\ \A k \in Indexed(fs) :
             \E r \in Records(Receiver) :
               /\ r.name = fs[k].md.name /\ r.version = fs[k].md.version
               /\ r.digest = fs[k].digest
               /\ r.urls = <<BaseURLOf(last.recv).segs \o <<fs[k].fname>>>>

\* C17 witness: a directory with a chart, then a chart whose digest fails,
\* then another chart: the error and a catalog with the first chart only.
C17_Witness ==
  /\ last.op = "IndexDirectory" /\ last.err = "DigestFailure"
  /\ Size(Receiver) = 1
  /\ \E k \in 1..Len(last.arg.archives) :
       /\ last.arg.archives[k].loads /\ last.arg.archives[k].digestOK
       /\ \E f \in DigestFails(last.arg.archives) : f < k

\* C17 second witness: a file that does not load stood between two charts
\* and both are in the catalog, with no error.
C17_WitnessSkipped ==
  /\ last.op = "IndexDirectory" /\ last.err = ""
  /\ Size(Receiver) = 2
  /\ \E k \in 2..Len(last.arg.archives) : ~last.arg.archives[k].loads

(***************************************************************************)
(* Credentials and unknown types (specification SpecRegistry)              *)
(***************************************************************************)
\* The threads that hold a handle GetGCSRepo has built in their call.
Built(t) == pc[t] = "register" \/ (pc[t] = "done" /\ ret[t].made)

\* The descriptor names a credential and the credential provider does not
\* find it.
CredentialFails(r) == r.cred # "" /\ GetCredential(r.cred).err # ""

\* C18: for a descriptor that names no credential the credential provider
\* is not asked and the handle is built with the default client; for a
\* descriptor whose credential is not found the handle is built with the
\* default client all the same, construction reports no error, and the
\* caller gets that handle and no error of the credential (the call fails
\* only when the name is registered already).
C18_CredentialFallback ==
  \A t \in Threads :
    LET r == cr[t].r
    IN  /\ (pc[t] = "create" /\ r.type = GCSRepoType /\ r.url \notin InvalidGCSURLs
              /\ (r.cred = "" \/ CredentialFails(r))) =>
             /\ ~GetGCSRepo(r).fatal /\ GetGCSRepo(r).err = ""
             /\ GetGCSRepo(r).h.client = "default"
             /\ createGCSClient(r.cred).asked <=> r.cred # ""
        /\ (Built(t) /\ (r.cred = "" \/ CredentialFails(r))) =>
             /\ cr[t].h.client = "default"
             /\ cr[t].h.name = r.name /\ cr[t].h.url = r.url
             /\ pc[t] = "done" =>
                  \/ ret[t].err = "" /\ ret[t].h = cr[t].h
                  \/ ret[t].err = "DuplicateRepository"

\* C18 witness: a call resolved r3, whose credential is not found, and
\* returned a handle with the default client and no error.
C18_Witness ==
  \E t \in Threads :
    /\ pc[t] = "done" /\ ret[t].made /\ cr[t].r.name = "r3"
    /\ CredentialFails(cr[t].r)
    /\ ret[t].err = "" /\ ret[t].h.client = "default" /\ ret[t].h.name = "r3"

\* C18 second witness: a handle built with a credential that was found.
C18_WitnessAuthorized ==
  \E t \in Threads : pc[t] = "done" /\ ret[t].err = "" /\ ret[t].h.client = "authorized"

\* The error the descriptor service answers the call of thread t with.
LookupError(t) ==
  IF call[t].op = "GetRepoByName" THEN ServiceGet(svc, call[t].name).err
  ELSE IF ServiceGetByURL(svc, call[t].url) = {} THEN "RepoNotFound" ELSE ""

\* C19: a call whose descriptor is of a type other than the one the provider
\* constructs returns UnknownRepoType and no handle, constructs nothing and
\* leaves the registry as it was; a call whose descriptor lookup fails
\* returns the error of the lookup and no handle, and leaves the registry as
\* it was.
C19_UnknownTypeAndFailedLookup ==
  [][\A t \in Threads :
       /\ (pc[t] = "create" /\ pc'[t] # "create" /\ cr[t].r.type # GCSRepoType) =>
            /\ pc'[t] = "done"
            /\ ret'[t].err = "UnknownRepoType" /\ ret'[t].h = NoHandle
            /\ ~ret'[t].made
            /\ repos' = repos /\ built' = built
       /\ (pc[t] = "lookup" /\ pc'[t] # "lookup") =>
            /\ repos' = repos /\ built' = built
            /\ LookupError(t) # "" =>
                 /\ pc'[t] = "done"
                 /\ ret'[t].err = LookupError(t) /\ ret'[t].h = NoHandle
                 /\ ~ret'[t].made
            /\ LookupError(t) = "" => pc'[t] = "create"]_vars

\* C19 witness: a call returned UnknownRepoType for r4 while the registry
\* held a handle.
C19_Witness ==
  \E t \in Threads :
    /\ pc[t] = "done" /\ ret[t].err = "UnknownRepoType"
    /\ cr[t].r.name = "r4" /\ ~ret[t].made
    /\ DOMAIN repos # {} /\ "r4" \notin DOMAIN repos

\* C19 second witness: a call whose lookup failed.
C19_WitnessLookupFailed ==
  \E t \in Threads :
    pc[t] = "done" /\ ret[t].err = "RepoNotFound" /\ ret[t].looked /\ DOMAIN repos # {}

(***************************************************************************)
(* GetChartByReference (specification SpecChart)                           *)
(***************************************************************************)
\* The positions of a call inside GetRepoByURL.
Resolving == {"wait", "locked", "lookup", "create", "register"}

\* C20: GetChartByReference parses, then resolves by the locator's URL, then
\* fetches.  A reference that does not parse to a GCS chart URL ends the
\* call with InvalidReference: nothing is resolved, the lock is not taken
\* and the registry is as it was.  A resolution that fails ends the call
\* with its error, no handle and no chart, and GetChart is not called.  The
\* fetch asks the handle resolution returned for <name>-<version>.tgz: it
\* returns that archive with that handle, or the error of the fetch with
\* neither archive nor handle.
C20_ParseResolveFetch ==
  [][\A t \in Threads :
       LET l == call[t].ref
       IN  /\ (pc[t] = "parse" /\ pc'[t] # "parse") =>
                IF ~(l.parses /\ l.long /\ GCSChartURLMatches(l.url))
                  THEN /\ pc'[t] = "done"
                       /\ ret'[t].err = "InvalidReference"
                       /\ ret'[t].h = NoHandle /\ ret'[t].chart = NoChart
                       /\ ~ret'[t].looked /\ ~ret'[t].made /\ ret'[t].asked = <<>>
                       /\ repos' = repos /\ built' = built /\ lock' = lock
                  ELSE /\ pc'[t] = "wait"
                       /\ call'[t].url = l.url
                       /\ ret'[t] = ret[t] /\ repos' = repos
           /\ (call[t].op = "GetChartByReference" /\ pc[t] \in Resolving
                 /\ pc'[t] \notin Resolving) =>
                /\ ret'[t].asked = <<>> /\ ret'[t].chart = NoChart
                /\ \/ pc'[t] = "done" /\ ret'[t].err # "" /\ ret'[t].h = NoHandle
                   \/ pc'[t] = "fetch" /\ ret'[t].err = "" /\ ret'[t].h # NoHandle
           /\ pc'[t] = "fetch" => pc[t] \in Resolving \cup {"fetch"}
           /\ (pc[t] = "fetch" /\ pc'[t] # "fetch") =>
                /\ pc'[t] = "done"
                /\ ret'[t].asked = <<l.name, "-", l.version, ".tgz">>
                /\ repos' = repos
                /\ \/ /\ ret'[t].err = ""
                      /\ ret'[t].h = ret[t].h
                      /\ ret'[t].chart = [archive |-> <<l.name, "-", l.version, ".tgz">>,
                                          from |-> ret[t].h.name]
                   \/ /\ ret'[t].err # ""
                      /\ ret'[t].h = NoHandle /\ ret'[t].chart = NoChart]_vars

\* C20 witness: a call returned the archive foo-1.2.3.tgz with the handle
\* resolution had constructed and registered.
C20_Witness ==
  \E t \in Threads :
    /\ pc[t] = "done" /\ call[t].op = "GetChartByReference"
    /\ ret[t].err = "" /\ ret[t].made
    /\ ret[t].chart.archive = <<"foo", "-", "1.2.3", ".tgz">>
    /\ ret[t].h.name \in DOMAIN repos /\ repos[ret[t].h.name] = ret[t].h
    /\ ret[t].chart.from = ret[t].h.name

\* C20 second witness: a reference that is not valid, with handles registered.
C20_WitnessInvalid ==
  \E t \in Threads :
    /\ pc[t] = "done" /\ ret[t].err = "InvalidReference" /\ call[t].ref.parses
    /\ DOMAIN repos # {}

\* C20 third witness: a resolution that failed, and no fetch.
C20_WitnessNotResolved ==
  \E t \in Threads :
    /\ pc[t] = "done" /\ call[t].op = "GetChartByReference"
    /\ ret[t].err \in {"RepoNotFound", "UnknownRepoType"} /\ ret[t].asked = <<>>

\* C20 fourth witness: a fetch that failed.
C20_WitnessFetchFailed ==
  \E t \in Threads :
    /\ pc[t] = "done" /\ ret[t].err = "ChartNotFound"
    /\ ret[t].asked # <<>> /\ ret[t].h = NoHandle

(***************************************************************************)
(* The lock of the provider (specification SpecChart)                      *)
(***************************************************************************)
\* The positions of a call between rp.Lock() and the deferred rp.Unlock().
Critical == {"locked", "lookup", "create", "register"}

\* C21: a thread holds the lock exactly while it is between its look into
\* the registry and its return out of GetRepoByURL: through the look-up,
\* the descriptor service's answer, the construction and the insertion.  So
\* no two threads are between look-up and insertion at once.  A thread that
\* parses or fetches does not hold the lock: while threads only fetch, the
\* lock is free for any thread that waits for it.
C21_LockHeldThroughResolutionOnly ==
  /\ \A t \in Threads : (lock = t) <=> (pc[t] \in Critical)
  /\ \A t, u \in Threads : (pc[t] \in Critical /\ pc[u] \in Critical) => t = u
  /\ \A t \in Threads : pc[t] \in {"parse", "fetch"} => lock # t
  /\ (\A t \in Threads : pc[t] \in {"fetch", "wait", "parse", "idle", "done"}) => lock = 0

\* C21 witness: one thread is at its fetch while another holds the lock and
\* has the descriptor service's answer.
C21_Witness ==
  \E t, u \in Threads :
    /\ pc[t] = "fetch" /\ pc[u] = "create" /\ lock = u /\ alive

\* C21 second witness: a thread waits for the lock another thread holds.
C21_WitnessWaiting ==
  \E t, u \in Threads : pc[t] = "wait" /\ pc[u] = "create" /\ lock = u

(***************************************************************************)
(* Add and Merge on a loaded catalog (specification Spec)                  *)
(***************************************************************************)
\* C22: Add and Merge return on every catalog that comes from NewIndexFile
\* or from a LoadIndex that succeeded, a document with an apiVersion and no
\* entries included; after Add the record added is found by Get under its
\* name and version, and after Merge so is every record of the other
\* catalog.
C22_AddAndMergeNeverFail ==
  /\ last.op \in {"Add", "Merge"} => last.err = ""
  /\ (last.op = "Add" /\ last.err = "") =>
       LET g == Get(Receiver, last.name, last.version)
       IN  g.err = "" /\ g.cv.name = last.name
  /\ (last.op = "Merge" /\ last.err = "") =>
       \A n \in DOMAIN last.arg.entries :
         \A k \in 1..Len(last.arg.entries[n]) :
           Get(Receiver, n, last.arg.entries[n][k].version).err = ""

\* C26: a Merge into a receiver none of whose lists holds a version twice
\* leaves it so, also when the other catalog holds a name and version more
\* than once; and the other catalog is after the Merge what it was before,
\* also when it is the receiver itself.
C26_MergePreservesUniqueness ==
  Merged =>
    /\ Unique(last.pre) => Unique(Receiver)
    /\ idx[last.other] = last.arg

\* C26 witness: the other catalog held a version twice that the receiver
\* did not hold, and the receiver holds it once afterwards.
C26_Witness ==
  /\ Merged /\ last.recv # last.other /\ Unique(last.pre)
  /\ \E n \in DOMAIN last.arg.entries :
       \E k, m \in 1..Len(last.arg.entries[n]) :
         /\ k # m
         /\ last.arg.entries[n][k].version = last.arg.entries[n][m].version
         /\ ~HasVersion(last.pre, n, last.arg.entries[n][k].version)
         /\ HasVersion(Receiver, n, last.arg.entries[n][k].version)

\* C26 second witness: a catalog that holds a version twice was merged into
\* itself.
C26_WitnessSelf ==
  Merged /\ last.recv = last.other /\ ~Unique(last.arg) /\ idx[last.other] = last.arg

(***************************************************************************)
(* Resolution by URL and by name together (specification SpecRegistry)     *)
(***************************************************************************)
\* C24: with the registry as it is, GetRepoByURL of a URL finds the same
\* handle in whatever order the registry map is ranged over, also when two
\* registered handles whose URLs are prefixes of the URL have URLs of the
\* same length.
C24_FindRepoByURLDeterministic ==
  \A URL \in CallURLs :
    \A o1, o2 \in Orders(DOMAIN repos) :
      findRepoByURL(repos, URL, o1) = findRepoByURL(repos, URL, o2)

\* The registered handles of the repositories the descriptor service maps
\* the argument of the call of thread t to.
MappedRegistered(t) ==
  IF call[t].op = "GetRepoByName"
    THEN {repos[n] : n \in {call[t].name} \cap DOMAIN svc \cap DOMAIN repos}
    ELSE {repos[d.name] : d \in {e \in ServiceGetByURL(svc, call[t].url) : e.name \in DOMAIN repos}}

C23_WitnessDuplicate ==
  \E t \in Threads :
    /\ pc[t] = "done" /\ call[t].op = "GetRepoByURL"
    /\ ret[t].err = "DuplicateRepository" /\ ret[t].made
    /\ "r1" \in DOMAIN repos /\ repos["r1"].url # svc["r1"].url

(***************************************************************************)
(* Progress of the calls (specification SpecRegistryFair)                  *)
(***************************************************************************)
\* C25: every call that waits for the lock or holds it returns in the end,
\* the lock having been released.
C25_EveryCallReturns ==
  \A t \in Threads :
    (pc[t] \in {"wait", "locked", "lookup", "create", "register"})
      ~> (pc[t] = "done" /\ lock # t)

\* C25, apart from log.Fatalf: every call that waits for the lock or holds it
\* returns with the lock released, unless the process has been ended.
C25_EveryCallReturnsOrProcessEnds ==
  \A t \in Threads :
    (pc[t] \in {"wait", "locked", "lookup", "create", "register"})
      ~> ((pc[t] = "done" /\ lock # t) \/ ~alive)

=============================================================================
